---- MODULE Spec2Model ----
(***************************************************************************)
(* Model of the banking ledger of week_1.py: the Account and Transaction   *)
(* entities, the two in-memory repositories and the two services.          *)
(*                                                                         *)
(* Amounts are Python floats.  They are modelled by a small binary         *)
(* floating-point format (Precision mantissa bits, exponents 0..MaxExp,    *)
(* round-to-nearest-even, overflow to infinity, NaN), with the finite      *)
(* values counted in units of the smallest step.  Negative zero compares   *)
(* and adds like zero and is not distinguished.                            *)
(***************************************************************************)
EXTENDS Integers, Sequences, FiniteSets

VARIABLES
    accounts,      \* AccountRepository.accounts: account id -> Account
    transactions,  \* TransactionRepository.transactions: the log
    last,          \* the last service call and what it did
    opened,        \* what each account was constructed with (history)
    response,      \* what the last HTTP request was answered with
    threads        \* the requests in flight when requests run concurrently

vars == <<accounts, transactions, last, opened, response, threads>>

(* ---------------- bounds ---------------- *)
\* mantissa bits and largest exponent of the float format
Precision == 2
MaxExp == 1
\* the longest transaction log explored: a deposit or withdraw that would
\* append to a full log is not taken
MaxLog == 2

(* ---------------- floats ---------------- *)
RECURSIVE Pow2(_)
Pow2(e) == IF e = 0 THEN 1 ELSE 2 * Pow2(e - 1)

MaxFinite == (Pow2(Precision) - 1) * Pow2(MaxExp)

Fin(n) == [kind |-> "fin", val |-> n]
PosInf == [kind |-> "inf", val |-> 1]
NegInf == [kind |-> "inf", val |-> -1]
NaN == [kind |-> "nan", val |-> 0]

IsFinite(x) == x.kind = "fin"

\* the unit in the last place of the binade that holds the magnitude n
RECURSIVE Ulp(_)
Ulp(n) == IF n < Pow2(Precision) THEN 1 ELSE 2 * Ulp(n \div 2)

\* round-to-nearest, ties to even, of a non-negative exact integer result
RoundMag(n) ==
    LET u == Ulp(n)
        q == n \div u
        r == n % u
    IN  IF 2 * r < u THEN q * u
        ELSE IF 2 * r > u THEN (q + 1) * u
        ELSE IF q % 2 = 0 THEN q * u ELSE (q + 1) * u

Round(n) ==
    LET m == RoundMag(IF n < 0 THEN -n ELSE n)
    IN  IF m > MaxFinite
        THEN (IF n < 0 THEN NegInf ELSE PosInf)
        ELSE Fin(IF n < 0 THEN -m ELSE m)

\* x + y of two floats
FAdd(x, y) ==
    IF x.kind = "nan" \/ y.kind = "nan" THEN NaN
    ELSE IF x.kind = "inf" /\ y.kind = "inf"
         THEN (IF x.val = y.val THEN x ELSE NaN)
    ELSE IF x.kind = "inf" THEN x
    ELSE IF y.kind = "inf" THEN y
    ELSE Round(x.val + y.val)

FNeg(x) == IF x.kind = "nan" THEN NaN ELSE [kind |-> x.kind, val |-> -x.val]

\* x - y of two floats
FSub(x, y) == FAdd(x, FNeg(y))

\* x < y of two floats (False whenever one side is NaN)
FLt(x, y) ==
    IF x.kind = "nan" \/ y.kind = "nan" THEN FALSE
    ELSE IF x.kind = "inf" /\ y.kind = "inf" THEN x.val < y.val
    ELSE IF x.kind = "inf" THEN x.val < 0
    ELSE IF y.kind = "inf" THEN y.val > 0
    ELSE x.val < y.val

\* x <= y of two floats (False whenever one side is NaN)
FLe(x, y) ==
    IF x.kind = "nan" \/ y.kind = "nan" THEN FALSE
    ELSE x = y \/ FLt(x, y)

Zero == Fin(0)

(* ---------------- domain layer ---------------- *)
ACTIVE == "ACTIVE"
CLOSED == "CLOSED"
AccountStatus == {ACTIVE, CLOSED}

CHECKING == "CHECKING"
SAVINGS == "SAVINGS"
AccountType == {CHECKING, SAVINGS}

DEPOSIT == "DEPOSIT"
WITHDRAW == "WITHDRAW"
TransactionType == {DEPOSIT, WITHDRAW}

\* the absence signal of dict.get and the value of a call that raised
None == [kind |-> "None"]

\* a constructor that refuses to open an account in debt
Account_ClampedBalance(id, account_type, initial_deposit) ==
    [account_id |-> id, account_type |-> account_type,
     balance |-> IF FLt(initial_deposit, Zero) THEN Zero ELSE initial_deposit,
     status |-> ACTIVE]

\* a constructor that drops the opening balance
Account_ZeroBalance(id, account_type, initial_deposit) ==
    [account_id |-> id, account_type |-> account_type,
     balance |-> Zero, status |-> ACTIVE]

\* Account.__init__: the id comes from uuid4
Account(id, account_type, initial_deposit) ==
    [account_id |-> id, account_type |-> account_type,
     balance |-> initial_deposit, status |-> ACTIVE]

\* Account.deposit: the error raised, or "ok" and the account after it
Account_deposit(account, amount) ==
    IF FLe(amount, Zero)
    THEN [outcome |-> "InvalidAmount", account |-> account]
    ELSE [outcome |-> "ok",
          account |-> [account EXCEPT !.balance = FAdd(@, amount)]]

\* a withdraw that closes the account it empties
Account_withdraw_ClosesEmpty(account, amount) ==
    IF FLe(amount, Zero)
    THEN [outcome |-> "InvalidAmount", account |-> account]
    ELSE IF FLt(account.balance, amount)
    THEN [outcome |-> "InsufficientBalance", account |-> account]
    ELSE [outcome |-> "ok",
          account |-> [account EXCEPT !.balance = FSub(@, amount),
                                      !.status = IF FSub(account.balance, amount) = Zero
                                                 THEN CLOSED ELSE @]]

\* a withdraw that subtracts before it checks the balance
Account_withdraw_MutateFirst(account, amount) ==
    IF FLe(amount, Zero)
    THEN [outcome |-> "InvalidAmount", account |-> account]
    ELSE IF FLt(account.balance, amount)
    THEN [outcome |-> "InsufficientBalance",
          account |-> [account EXCEPT !.balance = FSub(@, amount)]]
    ELSE [outcome |-> "ok",
          account |-> [account EXCEPT !.balance = FSub(@, amount)]]

\* a withdraw that checks the balance before the sign of the amount
Account_withdraw_BalanceFirst(account, amount) ==
    IF FLt(account.balance, amount)
    THEN [outcome |-> "InsufficientBalance", account |-> account]
    ELSE IF FLe(amount, Zero)
    THEN [outcome |-> "InvalidAmount", account |-> account]
    ELSE [outcome |-> "ok",
          account |-> [account EXCEPT !.balance = FSub(@, amount)]]

\* Account.withdraw
Account_withdraw(account, amount) ==
    IF FLe(amount, Zero)
    THEN [outcome |-> "InvalidAmount", account |-> account]
    ELSE IF FLt(account.balance, amount)
    THEN [outcome |-> "InsufficientBalance", account |-> account]
    ELSE [outcome |-> "ok",
          account |-> [account EXCEPT !.balance = FSub(@, amount)]]

\* Transaction.__init__: the id comes from uuid4
Transaction(tid, account_id, transaction_type, amount) ==
    [transaction_id |-> tid, account_id |-> account_id,
     transaction_type |-> transaction_type, amount |-> amount]

(* ---------------- infrastructure layer ---------------- *)
\* account ids are uuid4 strings; these stand for the ones in use
AccountIds == {"a1", "a2"}

\* a store that forgets every other account on a write
PutAccount_Replace(accs, account) ==
    [i \in {account.account_id} |-> account]

\* AccountRepository.create_account and update_account: self.accounts[id] = account
PutAccount(accs, account) ==
    [i \in DOMAIN accs \cup {account.account_id} |->
        IF i = account.account_id THEN account ELSE accs[i]]

\* dict.get: the value under the key, or None
DictGet(accs, account_id) ==
    IF account_id \in DOMAIN accs THEN accs[account_id] ELSE None

\* a lookup that makes up an empty account for an unknown id
get_account_by_id_Default(account_id) ==
    IF account_id \in DOMAIN accounts THEN accounts[account_id]
    ELSE Account(account_id, CHECKING, Zero)

\* AccountRepository.get_account_by_id
get_account_by_id(account_id) == DictGet(accounts, account_id)

\* a save that puts the newest transaction first
save_transaction_Prepend(txs, transaction) == <<transaction>> \o txs

\* TransactionRepository.save_transaction: list.append
save_transaction(txs, transaction) == Append(txs, transaction)

\* a lookup that returns the newest transaction first
TxOf_Reversed(txs, account_id) ==
    LET Matches(tx) == tx.account_id = account_id
        r == SelectSeq(txs, Matches)
    IN  [k \in 1..Len(r) |-> r[Len(r) + 1 - k]]

\* TransactionRepository.get_transactions_for_account: the list comprehension
TxOf(txs, account_id) ==
    LET Matches(tx) == tx.account_id = account_id
    IN  SelectSeq(txs, Matches)

get_transactions_for_account(account_id) == TxOf(transactions, account_id)

(* ---------------- inputs ---------------- *)
\* uuid4 values: fresh, never equal to an id handed out before
FreshAccountIds == AccountIds \ DOMAIN accounts
FreshTransactionId == Len(transactions) + 1

\* the arguments the calls are tried with: a negative, a zero, a positive, an
\* infinite and a NaN amount; a negative, a zero and a large opening balance
TypeStrings == {CHECKING, SAVINGS, "GOLD"}
Amounts == {Fin(-1), Zero, Fin(1), PosInf, NaN}
InitialDeposits == {Fin(-1), Zero, Fin(Pow2(Precision))}

(* ---------------- application layer ---------------- *)
\* the last call: its arguments, its outcome ("ok" or the error raised), the
\* value it returned, and the balance it found on the account it looked up
Call(op, account_id, account_type, amount, outcome, before, ret) ==
    [op |-> op, account_id |-> account_id, account_type |-> account_type,
     amount |-> amount, outcome |-> outcome, before |-> before, ret |-> ret]

\* the type Account.__init__ was called with for the account just opened
Opened(old, call) ==
    IF call.op = "create_account" /\ call.outcome = "ok"
    THEN [i \in DOMAIN old \cup {call.ret.account_id} |->
            IF i = call.ret.account_id
            THEN [account_type |-> call.account_type]
            ELSE old[i]]
    ELSE old

\* the type and the opening balance Account.__init__ was called with
OpenedWithDeposit(old, call) ==
    IF call.op = "create_account" /\ call.outcome = "ok"
    THEN [i \in DOMAIN old \cup {call.ret.account_id} |->
            IF i = call.ret.account_id
            THEN [account_type |-> call.account_type, initial_deposit |-> call.amount]
            ELSE old[i]]
    ELSE old

Init ==
    /\ accounts = <<>>
    /\ transactions = <<>>
    /\ last = Call("init", "", "", Zero, "ok", None, None)
    /\ opened = <<>>
    /\ response = None
    /\ threads = <<>>

\* a create_account that opens a CHECKING account for an unrecognised type
create_account_DefaultType(account_type, initial_deposit) ==
    \E id \in FreshAccountIds :
        LET t == IF account_type \in AccountType THEN account_type ELSE CHECKING
            account == Account(id, t, initial_deposit)
        IN  /\ accounts' = PutAccount(accounts, account)
            /\ last' = Call("create_account", "", account_type, initial_deposit,
                            "ok", None, [account_id |-> id])
            /\ UNCHANGED transactions

\* AccountCreationService.create_account
create_account(account_type, initial_deposit) ==
    IF account_type \notin AccountType
    THEN /\ last' = Call("create_account", "", account_type, initial_deposit,
                         "InvalidAccountType", None, None)
         /\ UNCHANGED <<accounts, transactions>>
    ELSE \E id \in FreshAccountIds :
           LET account == Account(id, account_type, initial_deposit)
           IN  /\ accounts' = PutAccount(accounts, account)
               /\ last' = Call("create_account", "", account_type, initial_deposit,
                               "ok", None, [account_id |-> id])
               /\ UNCHANGED transactions

\* a deposit that records the transaction before it looks the account up
deposit_LogsFirst(account_id, amount) ==
    LET account == get_account_by_id(account_id)
        transaction == Transaction(FreshTransactionId, account_id, DEPOSIT, amount)
    IN  /\ Len(transactions) < MaxLog
        /\ transactions' = save_transaction(transactions, transaction)
        /\ IF account = None
           THEN /\ last' = Call("deposit", account_id, "", amount,
                                "AccountNotFound", None, None)
                /\ UNCHANGED accounts
           ELSE LET r == Account_deposit(account, amount)
                IN  /\ accounts' = PutAccount(accounts, r.account)
                    /\ last' = Call("deposit", account_id, "", amount, r.outcome,
                                    account.balance,
                                    IF r.outcome = "ok" THEN transaction ELSE None)

\* TransactionService.deposit.  The account looked up is the stored object:
\* whatever Account.deposit did to it before raising is what the store holds.
deposit(account_id, amount) ==
    LET account == get_account_by_id(account_id)
    IN  IF account = None
        THEN /\ last' = Call("deposit", account_id, "", amount,
                             "AccountNotFound", None, None)
             /\ UNCHANGED <<accounts, transactions>>
        ELSE LET r == Account_deposit(account, amount)
                 transaction == Transaction(FreshTransactionId, account_id, DEPOSIT, amount)
             IN  IF r.outcome # "ok"
                 THEN /\ accounts' = PutAccount(accounts, r.account)
                      /\ last' = Call("deposit", account_id, "", amount,
                                      r.outcome, account.balance, None)
                      /\ UNCHANGED transactions
                 ELSE /\ Len(transactions) < MaxLog
                      /\ accounts' = PutAccount(accounts, r.account)
                      /\ transactions' = save_transaction(transactions, transaction)
                      /\ last' = Call("deposit", account_id, "", amount,
                                      "ok", account.balance, transaction)

\* TransactionService.withdraw
withdraw(account_id, amount) ==
    LET account == get_account_by_id(account_id)
    IN  IF account = None
        THEN /\ last' = Call("withdraw", account_id, "", amount,
                             "AccountNotFound", None, None)
             /\ UNCHANGED <<accounts, transactions>>
        ELSE LET r == Account_withdraw(account, amount)
                 transaction == Transaction(FreshTransactionId, account_id, WITHDRAW, amount)
             IN  IF r.outcome # "ok"
                 THEN /\ accounts' = PutAccount(accounts, r.account)
                      /\ last' = Call("withdraw", account_id, "", amount,
                                      r.outcome, account.balance, None)
                      /\ UNCHANGED transactions
                 ELSE /\ Len(transactions) < MaxLog
                      /\ accounts' = PutAccount(accounts, r.account)
                      /\ transactions' = save_transaction(transactions, transaction)
                      /\ last' = Call("withdraw", account_id, "", amount,
                                      "ok", account.balance, transaction)

\* the services called one after the other, outside any HTTP request
CreateAccount ==
    /\ \E t \in TypeStrings, d \in InitialDeposits : create_account(t, d)
    /\ opened' = Opened(opened, last')
    /\ UNCHANGED <<response, threads>>

Deposit ==
    /\ \E id \in AccountIds, a \in Amounts : deposit(id, a)
    /\ UNCHANGED <<opened, response, threads>>

Withdraw ==
    /\ \E id \in AccountIds, a \in Amounts : withdraw(id, a)
    /\ UNCHANGED <<opened, response, threads>>

Next == CreateAccount \/ Deposit \/ Withdraw

Spec == Init /\ [][Next]_vars

\* the same calls, with every account's opening balance kept as history
CreateAccountLedger ==
    /\ \E t \in TypeStrings, d \in InitialDeposits : create_account(t, d)
    /\ opened' = OpenedWithDeposit(opened, last')
    /\ UNCHANGED <<response, threads>>

NextLedger == CreateAccountLedger \/ Deposit \/ Withdraw

SpecLedger == Init /\ [][NextLedger]_vars

(* ---------------- presentation layer ---------------- *)
\* the ids, type strings and JSON numbers HTTP requests are tried with
UnknownId == "zz"
RequestIds == AccountIds \cup {UnknownId}
RequestTypes == {"checking", "SAVINGS", "gold"}
RequestAmounts == {Fin(-1), Zero, Fin(1)}

\* str.upper on the type strings tried
Upper(str) ==
    CASE str = "checking" -> "CHECKING"
      [] str = "gold" -> "GOLD"
      [] OTHER -> str

\* what a route returned (status 200 and the body) or the HTTPException it raised
Response(route, account_id, status, body) ==
    [route |-> route, account_id |-> account_id, status |-> status, body |-> body]

\* a request that calls no service
NoCall == Call("none", "", "", Zero, "ok", None, None)

\* the body of a successful deposit or withdraw: the account is read again
TransactionBody(tx, account) ==
    [transactionId |-> tx.transaction_id,
     transactionType |-> tx.transaction_type,
     amount |-> tx.amount,
     newBalance |-> account.balance]

\* POST /accounts
route_create_account(accountType, initialDeposit) ==
    /\ create_account(Upper(accountType), initialDeposit)
    /\ opened' = Opened(opened, last')
    /\ response' = IF last'.outcome = "ok"
                   THEN Response("create_account", "", 200,
                                 [accountId |-> last'.ret.account_id])
                   ELSE Response("create_account", "", 400, [detail |-> last'.outcome])
    /\ UNCHANGED threads

\* a withdraw route that answers 404 for an unknown account
route_withdraw_NotFound404(account_id, amount) ==
    /\ withdraw(account_id, amount)
    /\ response' = IF last'.outcome = "ok"
                   THEN Response("withdraw", account_id, 200,
                                 TransactionBody(last'.ret, DictGet(accounts', account_id)))
                   ELSE Response("withdraw", account_id,
                                 IF last'.outcome = "AccountNotFound" THEN 404 ELSE 400,
                                 [detail |-> last'.outcome])
    /\ UNCHANGED <<opened, threads>>

\* POST /accounts/{account_id}/deposit
route_deposit(account_id, amount) ==
    /\ deposit(account_id, amount)
    /\ response' = IF last'.outcome = "ok"
                   THEN Response("deposit", account_id, 200,
                                 TransactionBody(last'.ret, DictGet(accounts', account_id)))
                   ELSE Response("deposit", account_id, 400, [detail |-> last'.outcome])
    /\ UNCHANGED <<opened, threads>>

\* POST /accounts/{account_id}/withdraw
route_withdraw(account_id, amount) ==
    /\ withdraw(account_id, amount)
    /\ response' = IF last'.outcome = "ok"
                   THEN Response("withdraw", account_id, 200,
                                 TransactionBody(last'.ret, DictGet(accounts', account_id)))
                   ELSE Response("withdraw", account_id, 400, [detail |-> last'.outcome])
    /\ UNCHANGED <<opened, threads>>

\* GET /accounts/{account_id}/balance
get_balance(account_id) ==
    LET account == get_account_by_id(account_id)
    IN  /\ response' = IF account = None
                       THEN Response("get_balance", account_id, 404,
                                     [detail |-> "Account not found"])
                       ELSE Response("get_balance", account_id, 200,
                                     [accountId |-> account.account_id,
                                      accountType |-> account.account_type,
                                      balance |-> account.balance,
                                      status |-> account.status])
        /\ last' = NoCall
        /\ UNCHANGED <<accounts, transactions, opened, threads>>

\* one element of the array GET transactions returns
TransactionItem(t) ==
    [transactionId |-> t.transaction_id, type |-> t.transaction_type, amount |-> t.amount]

\* GET /accounts/{account_id}/transactions
get_transactions(account_id) ==
    LET txs == get_transactions_for_account(account_id)
    IN  /\ response' = Response("get_transactions", account_id, 200,
                                [k \in 1..Len(txs) |-> TransactionItem(txs[k])])
        /\ last' = NoCall
        /\ UNCHANGED <<accounts, transactions, opened, threads>>

PostAccounts == \E t \in RequestTypes, d \in InitialDeposits : route_create_account(t, d)
PostDeposit == \E id \in AccountIds, a \in RequestAmounts : route_deposit(id, a)
PostWithdraw == \E id \in AccountIds, a \in RequestAmounts : route_withdraw(id, a)
GetBalance == \E id \in RequestIds : get_balance(id)
GetTransactions == \E id \in RequestIds : get_transactions(id)

NextHttp == PostAccounts \/ PostDeposit \/ PostWithdraw \/ GetBalance \/ GetTransactions

\* the application serving one request after the other
SpecHttp == Init /\ [][NextHttp]_vars

(* ---------------- concurrent requests ---------------- *)
\* Two deposit / withdraw requests served by two threads over one account
\* store.  Nothing in TransactionService or Account takes a lock, so the steps
\* of the two calls interleave; the account a call looked up is the stored
\* object itself, so each read of balance sees what the other call wrote.
Threads == {"t1", "t2"}
ConcOps == {"deposit", "withdraw"}
ConcAmounts == {Zero, Fin(1)}
ConcBalances == {Zero, Fin(1)}
ConcAccount == "a1"

Request(op, account_id, amount) ==
    [op |-> op, account_id |-> account_id, amount |-> amount,
     pc |-> "lookup", tmp |-> None, outcome |-> "running"]

InitConc ==
    /\ \E b \in ConcBalances :
         /\ accounts = [i \in {ConcAccount} |-> Account(ConcAccount, CHECKING, b)]
         /\ opened = [i \in {ConcAccount} |->
                        [account_type |-> CHECKING, initial_deposit |-> b]]
    /\ transactions = <<>>
    /\ last = NoCall
    /\ response = None
    /\ threads \in [Threads -> {Request(op, id, a) :
                                  op \in ConcOps, id \in AccountIds, a \in ConcAmounts}]

Goto(t, pc) == [threads EXCEPT ![t].pc = pc]
Raise(t, outcome) == [threads EXCEPT ![t].pc = "done", ![t].outcome = outcome]
SetBalance(accs, id, balance) == [accs EXCEPT ![id].balance = balance]

\* a lookup that waits while the other call is between its lookup and its end
Lookup_Locked(t) ==
    /\ threads[t].pc = "lookup"
    /\ \A u \in Threads \ {t} : threads[u].pc \in {"lookup", "done"}
    /\ threads' = IF get_account_by_id(threads[t].account_id) = None
                  THEN Raise(t, "AccountNotFound")
                  ELSE Goto(t, "check_amount")
    /\ UNCHANGED <<accounts, transactions, last, opened, response>>

\* TransactionService.deposit / withdraw: account = get_account_by_id(...)
Lookup(t) ==
    /\ threads[t].pc = "lookup"
    /\ threads' = IF get_account_by_id(threads[t].account_id) = None
                  THEN Raise(t, "AccountNotFound")
                  ELSE Goto(t, "check_amount")
    /\ UNCHANGED <<accounts, transactions, last, opened, response>>

\* Account.deposit / withdraw: if amount <= 0: raise
CheckAmount(t) ==
    /\ threads[t].pc = "check_amount"
    /\ threads' = IF FLe(threads[t].amount, Zero)
                  THEN Raise(t, "InvalidAmount")
                  ELSE Goto(t, IF threads[t].op = "withdraw"
                               THEN "check_balance" ELSE "load")
    /\ UNCHANGED <<accounts, transactions, last, opened, response>>

\* Account.withdraw: if self.balance < amount: raise
CheckBalance(t) ==
    /\ threads[t].pc = "check_balance"
    /\ threads' = IF FLt(accounts[threads[t].account_id].balance, threads[t].amount)
                  THEN Raise(t, "InsufficientBalance")
                  ELSE Goto(t, "load")
    /\ UNCHANGED <<accounts, transactions, last, opened, response>>

\* self.balance += amount / -= amount: the read of self.balance
Load(t) ==
    /\ threads[t].pc = "load"
    /\ threads' = [threads EXCEPT ![t].pc = "store",
                                  ![t].tmp = accounts[threads[t].account_id].balance]
    /\ UNCHANGED <<accounts, transactions, last, opened, response>>

\* self.balance += amount / -= amount: the write of the sum or difference
Store(t) ==
    /\ threads[t].pc = "store"
    /\ accounts' = SetBalance(accounts, threads[t].account_id,
                              IF threads[t].op = "deposit"
                              THEN FAdd(threads[t].tmp, threads[t].amount)
                              ELSE FSub(threads[t].tmp, threads[t].amount))
    /\ threads' = Goto(t, "update")
    /\ UNCHANGED <<transactions, last, opened, response>>

\* account_repo.update_account(account): stores the object the store holds
Update(t) ==
    /\ threads[t].pc = "update"
    /\ accounts' = PutAccount(accounts, accounts[threads[t].account_id])
    /\ threads' = Goto(t, "save")
    /\ UNCHANGED <<transactions, last, opened, response>>

\* transaction_repo.save_transaction(Transaction(...)); return transaction
Save(t) ==
    /\ threads[t].pc = "save"
    /\ transactions' = save_transaction(transactions,
                          Transaction(FreshTransactionId, threads[t].account_id,
                                      IF threads[t].op = "deposit" THEN DEPOSIT ELSE WITHDRAW,
                                      threads[t].amount))
    /\ threads' = Raise(t, "ok")
    /\ UNCHANGED <<accounts, last, opened, response>>

Step(t) ==
    \/ Lookup(t)
    \/ CheckAmount(t)
    \/ CheckBalance(t)
    \/ Load(t)
    \/ Store(t)
    \/ Update(t)
    \/ Save(t)

NextConc == \E t \in Threads : Step(t)

SpecConc == InitConc /\ [][NextConc]_vars

(* ======================= properties ======================= *)
IsTransact(c) == c.op \in {"deposit", "withdraw"}
Failed(c) == c.outcome # "ok"

\* C1: every account's balance is >= 0 in every reachable state, whatever
\* createAccount, deposit and withdraw calls were made.
C1_BalanceNonNegative ==
    \A id \in DOMAIN accounts : FLe(Zero, accounts[id].balance)

\* C2: a deposit or withdraw that fails leaves the accounts and the log as they
\* were; the log grows only together with the matching balance mutation, and
\* an account changes only together with one new log entry for it.
C2_FailureLeavesStateUnchanged ==
    [][IsTransact(last') =>
         /\ Failed(last') => (accounts' = accounts /\ transactions' = transactions)
         /\ transactions' # transactions =>
              LET tx == transactions'[Len(transactions')]
                  old == accounts[tx.account_id].balance
              IN  /\ ~Failed(last')
                  /\ Len(transactions') = Len(transactions) + 1
                  /\ accounts'[tx.account_id].balance =
                       IF tx.transaction_type = DEPOSIT
                       THEN FAdd(old, tx.amount) ELSE FSub(old, tx.amount)
         /\ accounts' # accounts =>
              /\ ~Failed(last')
              /\ Len(transactions') = Len(transactions) + 1
              /\ \A id \in DOMAIN accounts :
                   accounts'[id] # accounts[id] =>
                     transactions'[Len(transactions')].account_id = id
      ]_vars

C2_Witness ==
    /\ last.op = "withdraw"
    /\ last.outcome = "InsufficientBalance"
    /\ Len(transactions) > 0

\* the balance b2 is exactly b + d (stated for finite amounts)
ExactSum(b, d, b2) ==
    (IsFinite(b) /\ IsFinite(d)) => (IsFinite(b2) /\ b2.val = b.val + d.val)

\* C3: a successful deposit(id, a) / withdraw(id, a) appends exactly one
\* transaction, with accountId id, amount a and type DEPOSIT / WITHDRAW, returns
\* that transaction, and changes the balance of id by exactly +a / -a.
C3_SuccessAppendsOneAndMovesBalanceExactly ==
    [][(IsTransact(last') /\ ~Failed(last')) =>
         LET id == last'.account_id
             a == last'.amount
         IN  /\ transactions' = Append(transactions, last'.ret)
             /\ last'.ret.account_id = id
             /\ last'.ret.amount = a
             /\ last'.ret.transaction_type =
                  (IF last'.op = "deposit" THEN DEPOSIT ELSE WITHDRAW)
             /\ ExactSum(accounts[id].balance,
                         IF last'.op = "deposit" THEN a ELSE FNeg(a),
                         accounts'[id].balance)
      ]_vars

\* C4: withdraw(id, a) with a > 0 on an existing account fails with
\* InsufficientBalance exactly when a > balance, and then leaves the balance
\* unchanged; when a <= balance it succeeds, and a = balance leaves balance 0.
C4_WithdrawInsufficientIffExceeds ==
    [][(/\ last'.op = "withdraw"
        /\ last'.account_id \in DOMAIN accounts
        /\ FLt(Zero, last'.amount)) =>
         LET id == last'.account_id
             a == last'.amount
             balance == accounts[id].balance
         IN  /\ (last'.outcome = "InsufficientBalance") <=> FLt(balance, a)
             /\ last'.outcome = "InsufficientBalance" => accounts' = accounts
             /\ FLe(a, balance) => last'.outcome = "ok"
             /\ a = balance => accounts'[id].balance = Zero
      ]_vars

\* C5: deposit and withdraw with amount <= 0 on an existing account fail with
\* InvalidAmount whatever the balance and change nothing; for withdraw the
\* amount check comes before the balance check.
C5_NonPositiveAmountIsInvalid ==
    [][(/\ IsTransact(last')
        /\ last'.account_id \in DOMAIN accounts
        /\ FLe(last'.amount, Zero)) =>
         /\ last'.outcome = "InvalidAmount"
         /\ accounts' = accounts
         /\ transactions' = transactions
      ]_vars

\* a withdraw of a non-positive amount that also exceeds the balance
C5_Witness ==
    /\ last.op = "withdraw"
    /\ last.outcome = "InvalidAmount"
    /\ FLe(last.amount, Zero)
    /\ FLt(last.before, last.amount)

\* C6: deposit and withdraw on an id that is not in the repository fail with
\* AccountNotFound whatever the amount, create no account and append no
\* transaction; get_account_by_id of an unknown id is the absence signal.
C6_UnknownAccountIsNotFound ==
    [][/\ (IsTransact(last') /\ last'.account_id \notin DOMAIN accounts) =>
            /\ last'.outcome = "AccountNotFound"
            /\ accounts' = accounts
            /\ transactions' = transactions
       /\ \A id \in AccountIds \ DOMAIN accounts : get_account_by_id(id) = None
      ]_vars

\* an unknown id together with an amount that is itself invalid
C6_Witness ==
    /\ last.op = "deposit"
    /\ last.outcome = "AccountNotFound"
    /\ FLe(last.amount, Zero)
    /\ last.account_id \notin DOMAIN accounts
    /\ DOMAIN accounts # {}

\* the positions of the log that hold a transaction of the account
PositionsOf(id) == {i \in 1..Len(transactions) : transactions[i].account_id = id}

\* C7: getByAccount(id) is exactly the subsequence of the log with that
\* accountId, oldest first, and the empty sequence when there is none (also
\* for an unknown id).
C7_GetByAccountIsOrderedSubsequence ==
    \A id \in AccountIds \cup {UnknownId} :
        LET r == get_transactions_for_account(id)
            idx == PositionsOf(id)
        IN  /\ Len(r) = Cardinality(idx)
            /\ idx = {} => r = <<>>
            /\ \A k \in 1..Len(r) :
                 \E i \in idx : /\ Cardinality({j \in idx : j < i}) = k - 1
                                /\ r[k] = transactions[i]

C7_Witness ==
    \E id \in AccountIds :
        /\ Len(get_transactions_for_account(id)) = 2
        /\ get_transactions_for_account(UnknownId) = <<>>

\* C8: the log is append-only: across every step the old log is a prefix of
\* the new one.
C8_LogIsAppendOnly ==
    [][/\ Len(transactions') >= Len(transactions)
       /\ SubSeq(transactions', 1, Len(transactions)) = transactions
      ]_vars

C8_Witness == Len(transactions) = 2

\* C9: for an existing account and a > 0, deposit(id, a) followed at once by
\* withdraw(id, a) both succeed and bring the balance back to its value before
\* the deposit.
C9_DepositThenWithdrawRestores ==
    [][(/\ last.op = "deposit"
        /\ last.outcome = "ok"
        /\ FLt(Zero, last.amount)
        /\ last'.op = "withdraw"
        /\ last'.account_id = last.account_id
        /\ last'.amount = last.amount) =>
         /\ last'.outcome = "ok"
         /\ accounts'[last.account_id].balance = last.before
      ]_vars

\* C10: createAccount with a recognised type adds exactly one account, under
\* an id no account had, with that type, balance = initialDeposit and status
\* ACTIVE; it returns the id, getById of it is the account, every other
\* account is unchanged and the log is unchanged.
C10_CreateAddsOneAccount ==
    [][(last'.op = "create_account" /\ last'.account_type \in AccountType) =>
         /\ last'.outcome = "ok"
         /\ LET id == last'.ret.account_id
            IN  /\ id \notin DOMAIN accounts
                /\ DOMAIN accounts' = DOMAIN accounts \cup {id}
                /\ accounts'[id] = [account_id |-> id,
                                    account_type |-> last'.account_type,
                                    balance |-> last'.amount,
                                    status |-> ACTIVE]
                /\ DictGet(accounts', id) = accounts'[id]
                /\ \A j \in DOMAIN accounts : accounts'[j] = accounts[j]
         /\ transactions' = transactions
      ]_vars

\* a second account opened next to one that already has a transaction
C10_Witness ==
    /\ last.op = "create_account"
    /\ last.outcome = "ok"
    /\ Cardinality(DOMAIN accounts) = 2
    /\ Len(transactions) > 0

\* C11: createAccount with a type string outside {CHECKING, SAVINGS} fails
\* with InvalidAccountType and leaves the accounts and the log unchanged.
C11_UnknownTypeIsRejected ==
    [][(last'.op = "create_account" /\ last'.account_type \notin {CHECKING, SAVINGS}) =>
         /\ last'.outcome = "InvalidAccountType"
         /\ accounts' = accounts
         /\ transactions' = transactions
      ]_vars

\* a rejected type while an account and a transaction exist
C11_Witness ==
    /\ last.op = "create_account"
    /\ last.outcome = "InvalidAccountType"
    /\ last.account_type = "GOLD"
    /\ DOMAIN accounts # {}
    /\ Len(transactions) > 0

\* C12: createAccount does not validate initialDeposit: with a recognised type
\* and a negative initialDeposit it succeeds and stores that negative balance.
C12_NegativeInitialDepositIsStored ==
    [][(/\ last'.op = "create_account"
        /\ last'.account_type \in AccountType
        /\ FLt(last'.amount, Zero)) =>
         /\ last'.outcome = "ok"
         /\ last'.ret.account_id \in DOMAIN accounts'
         /\ accounts'[last'.ret.account_id].balance = last'.amount
         /\ FLt(accounts'[last'.ret.account_id].balance, Zero)
      ]_vars

C12_Witness ==
    /\ last.op = "create_account"
    /\ last.outcome = "ok"
    /\ FLt(last.amount, Zero)
    /\ accounts[last.ret.account_id].balance = last.amount

\* C13: every transaction in the log has amount > 0 and a type in
\* {DEPOSIT, WITHDRAW}.
C13_LoggedAmountsArePositive ==
    \A i \in 1..Len(transactions) :
        /\ FLt(Zero, transactions[i].amount)
        /\ transactions[i].transaction_type \in {DEPOSIT, WITHDRAW}

\* C17: a deposit or withdraw on account A leaves every other account and
\* every other account's transactions as they were; only createAccount changes
\* the set of account ids, and the set never shrinks.
C17_OtherAccountsUntouched ==
    [][/\ IsTransact(last') =>
            /\ DOMAIN accounts' = DOMAIN accounts
            /\ \A b \in (AccountIds \cup {UnknownId}) \ {last'.account_id} :
                 /\ b \in DOMAIN accounts => accounts'[b] = accounts[b]
                 /\ TxOf(transactions', b) = TxOf(transactions, b)
       /\ DOMAIN accounts \subseteq DOMAIN accounts'
       /\ DOMAIN accounts' # DOMAIN accounts =>
            (last'.op = "create_account" /\ last'.outcome = "ok")
      ]_vars

\* a successful withdraw on one account next to another with a transaction
C17_Witness ==
    /\ last.op = "withdraw"
    /\ last.outcome = "ok"
    /\ \E b \in DOMAIN accounts \ {last.account_id} :
         Len(get_transactions_for_account(b)) = 1

\* C18: every transaction in the log names an account that is in the
\* repository.
C18_LoggedAccountsExist ==
    \A i \in 1..Len(transactions) : transactions[i].account_id \in DOMAIN accounts

\* a call on an id that was never opened, after a transaction was logged
C18_Witness ==
    /\ IsTransact(last)
    /\ last.outcome = "AccountNotFound"
    /\ Len(transactions) > 0
    /\ AccountIds \ DOMAIN accounts # {}

\* the signed sum of the logged amounts of an account: deposits minus withdrawals
RECURSIVE LedgerSum(_, _)
LedgerSum(txs, id) ==
    IF txs = <<>> THEN 0
    ELSE LET tx == Head(txs)
         IN  (IF tx.account_id # id THEN 0
              ELSE IF tx.transaction_type = DEPOSIT THEN tx.amount.val
              ELSE -tx.amount.val) + LedgerSum(Tail(txs), id)

\* C16: each account's balance equals its initialDeposit plus its logged
\* deposits minus its logged withdrawals (stated for finite amounts; the
\* opening balances are those SpecLedger keeps).
C16_LedgerConservation ==
    \A id \in DOMAIN accounts :
        (/\ IsFinite(opened[id].initial_deposit)
         /\ \A i \in 1..Len(transactions) :
              transactions[i].account_id = id => IsFinite(transactions[i].amount))
        => /\ IsFinite(accounts[id].balance)
           /\ accounts[id].balance.val =
                opened[id].initial_deposit.val + LedgerSum(transactions, id)

\* C19: every account's status is ACTIVE and its id and type are the ones it
\* was created with, in every reachable state.
C19_StatusIdTypeFixed ==
    /\ DOMAIN opened = DOMAIN accounts
    /\ \A id \in DOMAIN accounts :
         /\ accounts[id].status = ACTIVE
         /\ accounts[id].account_id = id
         /\ accounts[id].account_type = opened[id].account_type

\* an account emptied by a withdraw after a deposit, next to another account
C19_Witness ==
    /\ last.op = "withdraw"
    /\ last.outcome = "ok"
    /\ accounts[last.account_id].balance = Zero
    /\ Cardinality(DOMAIN accounts) = 2
    /\ Len(transactions) = 2

\* C14: at the HTTP boundary a deposit or withdraw that fails (unknown
\* account, non-positive amount, insufficient balance) and a create with an
\* invalid type are answered 400; GET balance of an unknown id is answered 404;
\* GET transactions of an id without transactions is answered with an empty
\* array; a successful deposit or withdraw reports as newBalance the balance
\* stored after it.
C14_HttpStatusMapping ==
    [][LET r == response'
       IN  /\ (r.route \in {"deposit", "withdraw"} /\ Failed(last')) =>
                /\ last'.outcome \in {"AccountNotFound", "InvalidAmount", "InsufficientBalance"}
                /\ r.status = 400
           /\ (r.route \in {"deposit", "withdraw"} /\ r.account_id \notin DOMAIN accounts) =>
                r.status = 400
           /\ (r.route \in {"deposit", "withdraw"} /\ FLe(last'.amount, Zero)) =>
                r.status = 400
           /\ (r.route = "withdraw" /\ r.account_id \in DOMAIN accounts
                 /\ FLt(accounts[r.account_id].balance, last'.amount)) =>
                r.status = 400
           /\ (r.route \in {"deposit", "withdraw"} /\ ~Failed(last')) =>
                /\ r.status = 200
                /\ r.body.newBalance = accounts'[r.account_id].balance
           /\ (r.route = "create_account" /\ last'.account_type \notin {CHECKING, SAVINGS}) =>
                r.status = 400
           /\ (r.route = "get_balance" /\ r.account_id \notin DOMAIN accounts) =>
                r.status = 404
           /\ (r.route = "get_transactions" /\ PositionsOf(r.account_id) = {}) =>
                (r.status = 200 /\ r.body = <<>>)
      ]_vars

\* a withdraw refused for its balance, answered 400, after a transaction
C14_Witness ==
    /\ response # None
    /\ response.route = "withdraw"
    /\ response.status = 400
    /\ last.outcome = "InsufficientBalance"
    /\ Len(transactions) > 0

\* the balance after the calls of threads t then u run one after the other
AfterCall(balance, req) ==
    LET acc == Account(req.account_id, CHECKING, balance)
    IN  IF req.op = "deposit" THEN Account_deposit(acc, req.amount).account.balance
        ELSE Account_withdraw(acc, req.amount).account.balance

Sequential(t, u) ==
    AfterCall(AfterCall(opened[ConcAccount].initial_deposit, threads[t]), threads[u])

\* a call is inside the lookup -> validate -> mutate -> persist -> log sequence
InSequence(t) == threads[t].pc \notin {"lookup", "done"}

\* C15: nothing excludes one deposit / withdraw call from running while
\* another is inside its lookup -> validate -> mutate -> persist -> log sequence
\* on the same account: whatever step the other call is due to take is enabled.
\* (The witness is the state the claim says is reachable.)
C15_NoMutualExclusion ==
    \A t \in Threads, u \in Threads :
        (t # u /\ InSequence(t) /\ threads[u].pc # "done") => ENABLED Step(u)

\* two withdrawals on the same account both passed the balance check; the
\* balance is below zero and differs from the result of both sequential orders
C15_Witness ==
    /\ \A t \in Threads :
         /\ threads[t].op = "withdraw"
         /\ threads[t].account_id = ConcAccount
         /\ threads[t].pc = "done"
         /\ threads[t].outcome = "ok"
    /\ FLe(Zero, opened[ConcAccount].initial_deposit)
    /\ FLt(accounts[ConcAccount].balance, Zero)
    /\ accounts[ConcAccount].balance # Sequential("t1", "t2")
    /\ accounts[ConcAccount].balance # Sequential("t2", "t1")

\* two deposits on the same account both succeeded and one of them is lost
C15_LostDeposit ==
    /\ \A t \in Threads :
         /\ threads[t].op = "deposit"
         /\ threads[t].account_id = ConcAccount
         /\ threads[t].pc = "done"
         /\ threads[t].outcome = "ok"
    /\ Len(transactions) = 2
    /\ accounts[ConcAccount].balance # Sequential("t1", "t2")
    /\ accounts[ConcAccount].balance # Sequential("t2", "t1")

====
